---- MODULE Spec2Model ----
(***************************************************************************)
(* A model of the whitewater encoder (src/whitewater/whitewater.py) and of *)
(* its command-line driver (src/whitewater/cli.py).                        *)
(*                                                                         *)
(* Strings are sequences of one-character strings, so that padding,        *)
(* concatenation and the base-64 conversion are computed, not assumed.     *)
(* A frame is a function from block position to the grey level of that     *)
(* block's pixels; a block is the sequence of its blocksize*blocksize      *)
(* pixel levels as crop() returns them (0 beyond the frame's edge).        *)
(***************************************************************************)
EXTENDS Integers, Sequences, FiniteSets, TLC

(***************************************************************************)
(* Bounds of the model.                                                    *)
(***************************************************************************)
\* source_size of the videos, in pixels
Width == 4
Height == 4
\* the options every encoder of the run is constructed with
blocksize == 2
grid == 2
\* the longest video, in frames
MaxFrames == 3
\* the number of files on a command line of several, and their longest video
MaxFiles == 2
CliFrames == 2
\* the largest threshold the detector is given on its own
MaxThreshold == 3
\* the numbers the codec is applied to, besides the powers of the base
MaxNum == 4200
\* the encoders constructed in one process
MaxConstructions == 2
\* the longest string _get_padded_string is given on its own, and the longest
\* length it is asked for
MaxString == 4
MaxLength == 3

(***************************************************************************)
(* Program constants.                                                      *)
(***************************************************************************)
\* _OPTION_DEFAULTS['threshold']
threshold == 1
\* the bands of mode 'RGB'
Bands == 3
\* the widths _add_to_framemap pads to
PositionWidth == 3
ConsecutiveWidth == 2
\* the width _save_images pads the image number to
SuffixWidth == 3
\* the number base of the frame-map alphabet
Base == 64

_DIGITS_64 ==
    << "A","B","C","D","E","F","G","H","I","J","K","L","M",
       "N","O","P","Q","R","S","T","U","V","W","X","Y","Z",
       "a","b","c","d","e","f","g","h","i","j","k","l","m",
       "n","o","p","q","r","s","t","u","v","w","x","y","z",
       "0","1","2","3","4","5","6","7","8","9","+","/" >>

DecimalDigits == << "0","1","2","3","4","5","6","7","8","9" >>

\* Python's None, and the TypeError that str + None raises
None == << "None" >>
TypeError == << "TypeError" >>

(***************************************************************************)
(* Whitewater._get_base64_from_base10                                      *)
(***************************************************************************)
\* the digits in the order the loop appends them, never reversed
RECURSIVE Digits64Unreversed(_)
Digits64Unreversed(num) ==
    IF num = 0 THEN << >>
    ELSE << _DIGITS_64[(num % Base) + 1] >> \o Digits64Unreversed(num \div Base)

RECURSIVE Digits64(_)
\* the while loop followed by digits.reverse(): most significant digit first
Digits64(num) ==
    IF num = 0 THEN << >>
    ELSE Append(Digits64(num \div Base), _DIGITS_64[(num % Base) + 1])

\* a conversion without the return for zero: the loop leaves no digit
_get_base64_without_zero_case(num) ==
    IF num < 0 THEN << "-" >> \o Digits64(-num)
    ELSE Digits64(num)

\* lines 507-525
_get_base64_from_base10(num) ==
    IF num = 0 THEN << _DIGITS_64[1] >>
    ELSE IF num < 0 THEN << "-" >> \o Digits64(-num)
    ELSE Digits64(num)

(***************************************************************************)
(* Whitewater._get_padded_string: the loop runs i = 1 .. length-1 and      *)
(* returns from inside; falling off its end returns None.                  *)
(***************************************************************************)
\* a loop that hands back the string when it finds no padding to add
RECURSIVE PadLoopKeepingString(_, _, _, _, _)
PadLoopKeepingString(string, length, char, i, padding) ==
    IF i >= length THEN string
    ELSE LET padded == Append(padding, char)
         IN  IF length - Len(string) = i THEN padded \o string
             ELSE PadLoopKeepingString(string, length, char, i + 1, padded)

RECURSIVE PadLoop(_, _, _, _, _)
PadLoop(string, length, char, i, padding) ==
    IF i >= length THEN None
    ELSE LET padded == Append(padding, char)
         IN  IF length - Len(string) = i THEN padded \o string
             ELSE PadLoop(string, length, char, i + 1, padded)

_get_padded_string(string, length, char) ==
    IF Len(string) = length THEN string
    ELSE PadLoop(string, length, char, 1, << >>)

(***************************************************************************)
(* Whitewater._add_to_framemap, with self.consecutive as a parameter.      *)
(* position_64 + consecutive_64 raises TypeError when either is None.      *)
(***************************************************************************)
_add_to_framemap(position, consecutive) ==
    LET consecutive_64 == _get_padded_string(_get_base64_from_base10(consecutive),
                                             ConsecutiveWidth, "A")
        position_64 == _get_padded_string(_get_base64_from_base10(position),
                                          PositionWidth, "A")
    IN  IF position_64 = None \/ consecutive_64 = None THEN TypeError
        ELSE position_64 \o consecutive_64

(***************************************************************************)
(* Reading a frame-map back, as the player does: the value of a symbol is  *)
(* its index in the alphabet.                                              *)
(***************************************************************************)
\* a character outside the alphabet (the '-' of a negative number) has no value
SymbolValue(ch) ==
    IF \E i \in 1..Len(_DIGITS_64) : _DIGITS_64[i] = ch
    THEN (CHOOSE i \in 1..Len(_DIGITS_64) : _DIGITS_64[i] = ch) - 1
    ELSE -1

RECURSIVE Decode64(_)
Decode64(s) ==
    IF s = << >> THEN 0
    ELSE Decode64(SubSeq(s, 1, Len(s) - 1)) * Base + SymbolValue(s[Len(s)])

TokenWidth == PositionWidth + ConsecutiveWidth

\* the tokens of a frame-map whose length is a multiple of TokenWidth
Tokens(frame_map) ==
    [ k \in 1..(Len(frame_map) \div TokenWidth) |->
        LET tok == SubSeq(frame_map, (k - 1) * TokenWidth + 1, k * TokenWidth)
        IN  [ start  |-> Decode64(SubSeq(tok, 1, PositionWidth)),
              length |-> Decode64(SubSeq(tok, PositionWidth + 1, TokenWidth)) ] ]

(***************************************************************************)
(* The block grid of a frame (_compare_to_previous_frame, lines 185-187)   *)
(* and the frames a video can hold.                                        *)
(***************************************************************************)
columns == (Width + blocksize - 1) \div blocksize
rows == (Height + blocksize - 1) \div blocksize

Levels == {0, 255}
Frames == [0..(rows * columns - 1) -> Levels]

\* the first frame of a video is of one level; the frames after it are any
FirstFrames == {f \in Frames : \A p, q \in DOMAIN f : f[p] = f[q]}

\* Whitewater._get_box_coords
_get_box_coords(r, c, size) ==
    [x_0 |-> c * size, y_0 |-> r * size, x_1 |-> c * size + size, y_1 |-> r * size + size]

\* the pixel of a frame at (px, py); a frame holds one level per block
PixelAt(frame, px, py) == frame[(py \div blocksize) * columns + (px \div blocksize)]

\* Image.new('RGB', (blocksize, blocksize)) with frame.crop(box) pasted on it:
\* the pixels of the box row by row, 0 where the box leaves the frame
crop(frame, box) ==
    [ i \in 1..((box.x_1 - box.x_0) * (box.y_1 - box.y_0)) |->
        LET px == box.x_0 + ((i - 1) % (box.x_1 - box.x_0))
            py == box.y_0 + ((i - 1) \div (box.x_1 - box.x_0))
        IN  IF px < Width /\ py < Height THEN PixelAt(frame, px, py) ELSE 0 ]

(***************************************************************************)
(* Whitewater._compare_images                                              *)
(***************************************************************************)
Abs(n) == IF n < 0 THEN -n ELSE n

RECURSIVE SumOver(_, _)
SumOver(S, f) ==
    IF S = {} THEN 0
    ELSE LET e == CHOOSE e \in S : TRUE IN f[e] + SumOver(S \ {e}, f)

\* ImageChops.difference
difference(im1, im2) == [i \in DOMAIN im1 |-> Abs(im1[i] - im2[i])]

\* diff.histogram(): Buckets counts per band; the three bands of a grey pixel are
\* equal. Only the buckets that hold a pixel are listed, the others count 0.
Buckets == 256
HistogramIndexes(diff) == {b * Buckets + diff[i] : b \in 0..(Bands - 1), i \in DOMAIN diff}
histogram(diff) ==
    [idx \in HistogramIndexes(diff) |->
        Cardinality({i \in DOMAIN diff : diff[i] = idx % Buckets})]

sum_of_squares(diff) ==
    LET h == histogram(diff)
    IN  SumOver(DOMAIN h, [idx \in DOMAIN h |-> h[idx] * ((idx % Buckets) * (idx % Buckets))])

\* a comparison that takes a statistic equal to the threshold for a difference
_compare_images_below(im1, im2, thr) ==
    LET diff == difference(im1, im2)
        bbox == \E i \in DOMAIN diff : diff[i] # 0
    IN  IF ~bbox THEN FALSE
        ELSE IF thr >= 0 /\ sum_of_squares(diff) < thr * thr * Len(im1)
             THEN FALSE
             ELSE TRUE

\* _compare_images with self.options['threshold'] as a parameter.  rms is a
\* square root, so rms <= thr is thr >= 0 and, squared on both sides,
\* sum_of_squares / area <= thr^2; Len(im1) is im1.size[0] * im1.size[1]
_compare_images_at(im1, im2, thr) ==
    LET diff == difference(im1, im2)
        bbox == \E i \in DOMAIN diff : diff[i] # 0
    IN  IF ~bbox THEN FALSE
        ELSE IF thr >= 0 /\ sum_of_squares(diff) <= thr * thr * Len(im1)
             THEN FALSE
             ELSE TRUE

_compare_images(im1, im2) == _compare_images_at(im1, im2, threshold)

(***************************************************************************)
(* FrameTracker.  images[1] is list index 0, the baseline.  A diffmap is a *)
(* function from cell index (y * grid + x) to the block pasted there;      *)
(* Image.new('RGB', size, None) leaves the cells unset.                    *)
(***************************************************************************)
Unset == << >>
NoFrame == << >>

BaselineImage(frame) == [kind |-> "frame", pixels |-> frame]
BlankDiffmap == [kind |-> "diffmap", cells |-> [c \in 0..(grid * grid - 1) |-> Unset]]

\* FrameTracker.__init__
NewTracker ==
    [x |-> 0, y |-> 0, previous_frame |-> NoFrame, current_frame |-> NoFrame,
     images |-> << >>]

\* FrameTracker.reset
reset(t) == [t EXCEPT !.x = 0, !.y = 0]

\* FrameTracker._create_diffmap
_create_diffmap(t) ==
    LET r == reset(t) IN [r EXCEPT !.images = Append(r.images, BlankDiffmap)]

\* FrameTracker.set_first_image
set_first_image(t, image) ==
    _create_diffmap([t EXCEPT !.images = Append(t.images, BaselineImage(image))])

\* a set_next_frame that keeps the first frame as the one to compare with
set_next_frame_keeping_previous(t, frame) ==
    [t EXCEPT !.previous_frame = IF t.previous_frame = NoFrame THEN t.current_frame
                                 ELSE t.previous_frame,
              !.current_frame = frame]

\* a set_next_frame that also rewinds the cursor
set_next_frame_rewinding(t, frame) ==
    [t EXCEPT !.previous_frame = t.current_frame, !.current_frame = frame, !.x = 0, !.y = 0]

\* a set_next_frame that starts a new diffmap with every frame
set_next_frame_new_diffmap(t, frame) ==
    _create_diffmap([t EXCEPT !.previous_frame = t.current_frame, !.current_frame = frame])

\* FrameTracker.set_next_frame
set_next_frame(t, frame) ==
    [t EXCEPT !.previous_frame = t.current_frame, !.current_frame = frame]

\* a next_cell that lets x reach grid before it wraps
next_cell_wrapping_late(t) ==
    LET t1 == [t EXCEPT !.x = t.x + 1]
    IN  IF t1.x > grid
        THEN LET t2 == [t1 EXCEPT !.x = 0, !.y = t1.y + 1]
             IN  IF t2.y > grid
                 THEN _create_diffmap([t2 EXCEPT !.y = 0])
                 ELSE t2
        ELSE t1

\* a next_cell that starts the same diffmap again when it is full
next_cell_reusing_diffmap(t) ==
    LET t1 == [t EXCEPT !.x = t.x + 1]
    IN  IF t1.x >= grid
        THEN LET t2 == [t1 EXCEPT !.x = 0, !.y = t1.y + 1]
             IN  IF t2.y >= grid
                 THEN reset(t2)
                 ELSE t2
        ELSE t1

\* FrameTracker.next_cell
next_cell(t) ==
    LET t1 == [t EXCEPT !.x = t.x + 1]
    IN  IF t1.x >= grid
        THEN LET t2 == [t1 EXCEPT !.x = 0, !.y = t1.y + 1]
             IN  IF t2.y >= grid
                 THEN _create_diffmap([t2 EXCEPT !.y = 0])
                 ELSE t2
        ELSE t1

\* a count that leaves out the diffmap set_first_image creates as well
diffmap_count_without_seed(t) == Len(t.images) - 2

\* FrameTracker.diffmap_count
diffmap_count(t) == Len(t.images) - 1

\* the box Whitewater._add_to_diffmap pastes into
PasteBox(t) ==
    [x_0 |-> t.x * blocksize, y_0 |-> t.y * blocksize,
     x_1 |-> t.x * blocksize + blocksize, y_1 |-> t.y * blocksize + blocksize]

\* tracker.diffmap.paste(block, box): the cell of images[-1] the box covers
paste(image, block, box) ==
    [image EXCEPT !.cells[(box.y_0 \div blocksize) * grid + (box.x_0 \div blocksize)] = block]

\* an _add_to_diffmap that pastes and leaves the cursor where it is
_add_to_diffmap_in_place(t, block) ==
    [t EXCEPT !.images[Len(t.images)] = paste(t.images[Len(t.images)], block, PasteBox(t))]

\* Whitewater._add_to_diffmap
_add_to_diffmap(t, block) ==
    next_cell([t EXCEPT !.images[Len(t.images)] = paste(t.images[Len(t.images)], block, PasteBox(t))])

(***************************************************************************)
(* Files and directories.  A directory is the list of its files, each a    *)
(* name and the data written to it, in the order os.listdir returns them.  *)
(***************************************************************************)
NoDir == [exists |-> FALSE, files |-> << >>]
EmptyDir == [exists |-> TRUE, files |-> << >>]

\* an output directory left by an earlier run
StaleDir ==
    [exists |-> TRUE,
     files |-> << [name |-> << "manifest.json" >>, data |-> [kind |-> "stale"]],
                  [name |-> << "first", ".jpg" >>, data |-> [kind |-> "stale"]] >>]

listdir(dir) == dir.files

WriteFile(dir, name, data) ==
    [dir EXCEPT !.files =
        Append(SelectSeq(dir.files, LAMBDA f : f.name # name), [name |-> name, data |-> data])]

RemoveFile(dir, name) ==
    [dir EXCEPT !.files = SelectSeq(dir.files, LAMBDA f : f.name # name)]

\* str(i) for i >= 0
RECURSIVE DecimalDigitsOf(_)
DecimalDigitsOf(i) ==
    IF i = 0 THEN << >> ELSE Append(DecimalDigitsOf(i \div 10), DecimalDigits[(i % 10) + 1])

str(i) == IF i = 0 THEN << "0" >> ELSE DecimalDigitsOf(i)

\* the file name _save_images and _save_image_as give list index i (format JPEG)
ImageFileName(i) ==
    IF i = 0 THEN << "first", ".jpg" >>
    ELSE LET suffix == _get_padded_string(str(i), SuffixWidth, "0")
         IN  IF suffix = None THEN TypeError ELSE << "diff_" >> \o suffix \o << ".jpg" >>

ManifestName == << "manifest.json" >>

(***************************************************************************)
(* The attributes __init__ gives an encoder; exit() asks for 'temp_dir'.   *)
(***************************************************************************)
InstanceAttributes ==
    {"debug", "paths", "options", "tracker", "video", "frame_maps", "consecutive"}

hasattr(name) == name \in InstanceAttributes

(***************************************************************************)
(* Options.  A dict is a function from its keys; 1.0 is written 1.         *)
(***************************************************************************)
\* the dict the class statement binds to Whitewater._OPTION_DEFAULTS
ClassDefaults ==
    [blocksize |-> 8, grid |-> 256, quality |-> 75, threshold |-> 1,
     format |-> "JPEG", debug |-> FALSE]

OptionKeys == DOMAIN ClassDefaults

\* a value of each option other than the one the class statement gives it
OtherValues ==
    [blocksize |-> 16, grid |-> 64, quality |-> 90, threshold |-> 2,
     format |-> "PNG", debug |-> TRUE]

\* the keyword arguments of a construction: any keys, each with the value of
\* the class statement or another one (values int(), float(), str() accept)
Kwargs ==
    {[key \in K |-> IF key \in C THEN OtherValues[key] ELSE ClassDefaults[key]] :
        K \in SUBSET OptionKeys, C \in SUBSET OptionKeys}

\* isinstance(options[key], bool): only 'debug' holds a bool, and no assignment
\* of _get_options changes the type of a value
isinstance_bool(opts, key) == key = "debug"

\* Whitewater._get_options: options is the dict _OPTION_DEFAULTS itself, and the
\* assignments of the loop are made in it; the result is that dict afterwards
_get_options(defaults, kw) ==
    [key \in DOMAIN defaults |->
        IF key \in DOMAIN kw /\ ~isinstance_bool(defaults, key) THEN kw[key]
        ELSE defaults[key]]

\* cli.get_arguments: the five options every command line passes
CliOptions ==
    [blocksize |-> blocksize, quality |-> 75, threshold |-> threshold,
     format |-> "JPEG", grid |-> grid]

VARIABLES
    paths,          \* main's list of files: the number of frames of each video
    pc,             \* where main and the encoder it runs are
    raised,         \* the exception that ended the program, "" while none has
    path_idx,       \* the number of paths main has taken from its list
    nframes,        \* the number of frames the reader of this path yields
    frame_number,   \* the number of frames encode() has taken from the reader
    tracker,        \* the encoder's FrameTracker
    frame_maps,     \* self.frame_maps
    consecutive,    \* self.consecutive
    position,       \* the locals of _compare_to_previous_frame
    frame_map,
    row,
    column,
    temp,           \* paths['temp']: whether it is set, and the directory
    output,         \* the directory paths['output'] names
    save_idx,       \* the list index _save_images is at
    oldfiles,       \* the locals of _copy_temp_directory
    newfiles,
    errors,         \* whether copytree has collected an error
    video,          \* history: the frames the reader has yielded
    placed,         \* history: the paste calls of this run, in order
    saved,          \* history: the file names this run wrote to paths['temp']
    output_before,  \* history: the output directory when the run began
    tok,            \* the token under conversion (token specification only)
    num,            \* the argument of _get_base64_from_base10 (codec specification)
    base64,         \* what it returned
    blocks,         \* the arguments of _compare_images (detector specification)
    different,      \* what it returned
    _OPTION_DEFAULTS,   \* the class attribute Whitewater._OPTION_DEFAULTS
    options,        \* self.options of the encoder constructed last
    kwargs,         \* history: the keyword arguments it was constructed with
    constructions,  \* history: the number of encoders constructed so far
    pad,            \* the arguments of _get_padded_string (padding specification)
    padded          \* what it returned

unitVars == << num, base64, blocks, different, pad, padded >>

optionVars == << _OPTION_DEFAULTS, options, kwargs, constructions >>

vars ==
    << paths, pc, raised, path_idx, nframes, frame_number, tracker, frame_maps, consecutive,
       position, frame_map, row, column, temp, output, save_idx, oldfiles, newfiles,
       errors, video, placed, saved, output_before, tok, paths, unitVars, optionVars >>

encoderVars ==
    << nframes, frame_number, tracker, frame_maps, consecutive, position, frame_map,
       row, column, video, placed >>

scanVars == << position, frame_map, row, column >>

fileVars == << temp, output, save_idx, oldfiles, newfiles, errors, saved, output_before >>

NoTemp == [path_set |-> FALSE, exists |-> FALSE, files |-> << >>]
NoToken == [position |-> 0, consecutive |-> 0]

NoBlocks == [im1 |-> << >>, im2 |-> << >>, threshold |-> 0]
NoOptions == [key \in {} |-> 0]

CodecIdle == num = 0 /\ base64 = << >>

NoPad == [string |-> << >>, length |-> 0, char |-> ""]
PadIdle == pad = NoPad /\ padded = << >>

DetectorIdle == blocks = NoBlocks /\ different = FALSE

\* the process has constructed no encoder yet
OptionsAtStart ==
    /\ _OPTION_DEFAULTS = ClassDefaults
    /\ options = NoOptions
    /\ kwargs = NoOptions
    /\ constructions = 0

\* __init__, line 59: self.options = self._get_options(kwargs)
SetOptions(kw) ==
    /\ _OPTION_DEFAULTS' = _get_options(_OPTION_DEFAULTS, kw)
    /\ options' = _get_options(_OPTION_DEFAULTS, kw)
    /\ kwargs' = kw
    /\ constructions' = constructions + 1

\* no encoder constructed yet
Idle ==
    /\ raised = ""
    /\ path_idx = 0
    /\ nframes = 0
    /\ frame_number = 0
    /\ tracker = NewTracker
    /\ frame_maps = << >>
    /\ consecutive = 0
    /\ position = 0
    /\ frame_map = << >>
    /\ row = 0
    /\ column = 0
    /\ temp = NoTemp
    /\ output = NoDir
    /\ save_idx = 0
    /\ oldfiles = << >>
    /\ newfiles = << >>
    /\ errors = FALSE
    /\ video = << >>
    /\ placed = << >>
    /\ saved = {}
    /\ output_before = NoDir

\* main() before it takes the first path: one file on the command line
Init ==
    /\ paths \in {<< n >> : n \in 1..MaxFrames}
    /\ pc = "main"
    /\ tok = NoToken
    /\ Idle
    /\ CodecIdle
    /\ DetectorIdle
    /\ PadIdle
    /\ OptionsAtStart

\* main() before it takes the first path: several files, videos of one length
InitCli ==
    /\ paths \in {[i \in 1..MaxFiles |-> n] : n \in 1..CliFrames}
    /\ pc = "main"
    /\ tok = NoToken
    /\ Idle
    /\ CodecIdle
    /\ DetectorIdle
    /\ PadIdle
    /\ OptionsAtStart

(***************************************************************************)
(* Whitewater.exit: removes paths['temp'] only if the encoder has an       *)
(* attribute 'temp_dir', then raises ProgramEnd.                           *)
(***************************************************************************)
exit_removes_temp == hasattr("temp_dir") /\ temp.path_set

TempAfterExit == IF exit_removes_temp THEN [temp EXCEPT !.exists = FALSE, !.files = << >>] ELSE temp

\* exit(message): the program ends with ProgramEnd, which main does not catch
exit ==
    /\ temp' = TempAfterExit
    /\ pc' = "ended"
    /\ raised' = "ProgramEnd"

\* an exception encode() does not catch leaves main as well
Uncaught(exception) ==
    /\ pc' = "ended"
    /\ raised' = exception
    /\ UNCHANGED temp

(***************************************************************************)
(* main(): for path in paths: encoder = Encoder(path, **options), and the  *)
(* start of encoder.encode().  The output directory of the path is absent  *)
(* or left by an earlier run.                                              *)
(***************************************************************************)
Construct ==
    /\ pc = "main"
    /\ path_idx < Len(paths)
    /\ nframes' = paths[path_idx + 1]
    /\ \E dir \in {NoDir, StaleDir} :
        /\ output' = dir
        /\ output_before' = dir
    /\ path_idx' = path_idx + 1
    /\ pc' = "frames"
    /\ frame_number' = 0
    /\ tracker' = NewTracker
    /\ frame_maps' = << >>
    /\ consecutive' = 0
    /\ position' = 0
    /\ frame_map' = << >>
    /\ row' = 0
    /\ column' = 0
    /\ temp' = NoTemp
    /\ save_idx' = 0
    /\ oldfiles' = << >>
    /\ newfiles' = << >>
    /\ errors' = FALSE
    /\ video' = << >>
    /\ placed' = << >>
    /\ saved' = {}
    /\ SetOptions(CliOptions)
    /\ UNCHANGED << raised, tok, paths, unitVars >>

\* __init__: imageio.get_reader raises IOError, exit('video not found')
ConstructFails ==
    /\ pc = "main"
    /\ path_idx < Len(paths)
    /\ path_idx' = path_idx + 1
    /\ exit
    /\ SetOptions(CliOptions)
    /\ UNCHANGED << encoderVars, output, save_idx, oldfiles, newfiles, errors, saved,
                    output_before, tok, paths, unitVars >>

(***************************************************************************)
(* encode(): one pass of the loop over the reader's frames, up to the      *)
(* block loops of _compare_to_previous_frame.                              *)
(***************************************************************************)
_process_frame ==
    /\ pc = "frames"
    /\ frame_number < nframes
    /\ \E frame \in (IF frame_number = 0 THEN FirstFrames ELSE Frames) :
        /\ video' = Append(video, frame)
        /\ IF frame_number + 1 = 1
           THEN /\ tracker' = set_first_image(set_next_frame(tracker, frame), frame)
                /\ pc' = "frames"
                /\ UNCHANGED << scanVars, consecutive >>
           ELSE /\ tracker' = set_next_frame(tracker, frame)
                /\ position' = 0
                /\ frame_map' = << >>
                /\ row' = 0
                /\ column' = 0
                /\ consecutive' = 0
                /\ pc' = "scan"
    /\ frame_number' = frame_number + 1
    /\ UNCHANGED << raised, path_idx, nframes, frame_maps, placed, fileVars, tok, paths, unitVars, optionVars >>

(***************************************************************************)
(* _compare_to_previous_frame, lines 196-220: one block of the row.        *)
(***************************************************************************)
\* the record of a paste call: the list index of images[-1], the box, the block
PasteRecord(t, block) == [image |-> Len(t.images) - 1, box |-> PasteBox(t), block |-> block]

\* a flush at a diffmap-row wrap that forgets the block at position is counted
WrapStartWithoutPlaced(pos, run) == pos - run

\* the start of the run a token is flushed for: line 211, after a placement that
\* completed a diffmap row (consecutive counts the block at position)
WrapStart(pos, run) == pos - run + 1

\* lines 215 and 223: the run ended before the block at position
RunStart(pos, run) == pos - run

\* a test that takes a run to be open although it counts no block
RunAlwaysOpen(run) == TRUE

\* lines 214 and 222: a run is flushed only if it counts a block
RunOpen(run) == run > 0

\* a test that finds every placement to complete a diffmap row
DiffmapRowAlwaysCompleted(t) == TRUE

\* a test that never finds a diffmap row completed
DiffmapRowNeverCompleted(t) == FALSE

\* line 210: the placement has brought the cursor back to the start of a row
DiffmapRowCompleted(t) == t.x = 0

ScanBlock ==
    /\ pc = "scan"
    /\ column < columns
    /\ LET box == _get_box_coords(row, column, blocksize)
           temp_0 == crop(tracker.previous_frame, box)
           temp_1 == crop(tracker.current_frame, box)
       IN  IF _compare_images(temp_0, temp_1)
           THEN LET after == _add_to_diffmap(tracker, temp_1)
                    token == _add_to_framemap(WrapStart(position, consecutive + 1), consecutive + 1)
                IN  /\ tracker' = after
                    /\ placed' = Append(placed, PasteRecord(tracker, temp_1))
                    /\ IF DiffmapRowCompleted(after)
                       THEN IF token = TypeError
                            THEN /\ Uncaught("TypeError")
                                 /\ UNCHANGED << scanVars, consecutive >>
                            ELSE /\ frame_map' = frame_map \o token
                                 /\ consecutive' = 0
                                 /\ position' = position + 1
                                 /\ column' = column + 1
                                 /\ UNCHANGED << pc, raised, temp >>
                       ELSE /\ consecutive' = consecutive + 1
                            /\ position' = position + 1
                            /\ column' = column + 1
                            /\ UNCHANGED << pc, raised, temp, frame_map >>
           ELSE /\ UNCHANGED << tracker, placed >>
                /\ IF RunOpen(consecutive)
                   THEN LET token == _add_to_framemap(RunStart(position, consecutive), consecutive)
                        IN  IF token = TypeError
                            THEN /\ Uncaught("TypeError")
                                 /\ UNCHANGED << scanVars, consecutive >>
                            ELSE /\ frame_map' = frame_map \o token
                                 /\ consecutive' = 0
                                 /\ position' = position + 1
                                 /\ column' = column + 1
                                 /\ UNCHANGED << pc, raised, temp >>
                   ELSE /\ position' = position + 1
                        /\ column' = column + 1
                        /\ UNCHANGED << pc, raised, temp, frame_map, consecutive >>
    /\ UNCHANGED << path_idx, nframes, frame_number, frame_maps, row, video,
                    output, save_idx, oldfiles, newfiles, errors, saved, output_before, tok, paths, unitVars, optionVars >>

\* an end of row that flushes and resets the run only at the end of the frame
RowEndKeepingRun ==
    /\ pc = "scan"
    /\ column = columns
    /\ IF row + 1 < rows
       THEN /\ row' = row + 1
            /\ column' = 0
            /\ UNCHANGED << pc, raised, temp, frame_map, frame_maps, consecutive >>
       ELSE LET token == _add_to_framemap(RunStart(position, consecutive), consecutive)
                flushed == IF consecutive > 0 THEN frame_map \o token ELSE frame_map
            IN  /\ consecutive' = 0
                /\ frame_map' = flushed
                /\ row' = row + 1
                /\ column' = 0
                /\ frame_maps' = Append(frame_maps, flushed)
                /\ pc' = "frames"
                /\ UNCHANGED << raised, temp >>
    /\ UNCHANGED << path_idx, nframes, frame_number, tracker, position, video, placed,
                    output, save_idx, oldfiles, newfiles, errors, saved, output_before, tok, paths, unitVars, optionVars >>

(***************************************************************************)
(* _compare_to_previous_frame, lines 222-226 and 192-194: the end of a row *)
(* of blocks, then the next row or the end of the frame.                   *)
(***************************************************************************)
RowEnd ==
    /\ pc = "scan"
    /\ column = columns
    /\ LET token == _add_to_framemap(RunStart(position, consecutive), consecutive)
           flushed == IF RunOpen(consecutive) THEN frame_map \o token ELSE frame_map
       IN  IF RunOpen(consecutive) /\ token = TypeError
           THEN /\ Uncaught("TypeError")
                /\ UNCHANGED << frame_map, frame_maps, consecutive, row, column >>
           ELSE /\ consecutive' = 0
                /\ frame_map' = flushed
                /\ row' = row + 1
                /\ column' = 0
                /\ IF row + 1 < rows
                   THEN UNCHANGED << pc, frame_maps >>
                   ELSE /\ frame_maps' = Append(frame_maps, flushed)
                        /\ pc' = "frames"
                /\ UNCHANGED << raised, temp >>
    /\ UNCHANGED << path_idx, nframes, frame_number, tracker, position, video, placed,
                    output, save_idx, oldfiles, newfiles, errors, saved, output_before, tok, paths, unitVars, optionVars >>

(***************************************************************************)
(* encode(), lines 86-87: the reader is exhausted; _create_output_directory *)
(***************************************************************************)
_create_output_directory ==
    /\ pc = "frames"
    /\ frame_number = nframes
    /\ temp' = [path_set |-> TRUE, exists |-> TRUE, files |-> << >>]
    /\ save_idx' = 0
    /\ pc' = "save_images"
    /\ UNCHANGED << raised, path_idx, encoderVars, output, oldfiles, newfiles, errors,
                    saved, output_before, tok, paths, unitVars, optionVars >>

\* tempfile.mkdtemp raises OSError: exit(err)
MkdtempFails ==
    /\ pc = "frames"
    /\ frame_number = nframes
    /\ exit
    /\ UNCHANGED << path_idx, encoderVars, output, save_idx, oldfiles, newfiles, errors,
                    saved, output_before, tok, paths, unitVars, optionVars >>

(***************************************************************************)
(* _save_images: one image of tracker.diffmaps through _save_image_as      *)
(***************************************************************************)
_save_image_as ==
    /\ pc = "save_images"
    /\ save_idx < Len(tracker.images)
    /\ LET filename == ImageFileName(save_idx)
       IN  IF filename = TypeError
           THEN /\ Uncaught("TypeError")
                /\ UNCHANGED << save_idx, saved >>
           ELSE /\ temp' = WriteFile(temp, filename, tracker.images[save_idx + 1])
                /\ saved' = saved \cup {filename}
                /\ save_idx' = save_idx + 1
                /\ UNCHANGED << pc, raised >>
    /\ UNCHANGED << path_idx, encoderVars, output, oldfiles, newfiles, errors,
                    output_before, tok, paths, unitVars, optionVars >>

\* image.save raises IOError and the loop of _save_images goes on
SaveImageFailsUnnoticed ==
    /\ pc = "save_images"
    /\ save_idx < Len(tracker.images)
    /\ save_idx' = save_idx + 1
    /\ UNCHANGED << pc, raised, path_idx, encoderVars, temp, output, oldfiles, newfiles,
                    errors, saved, output_before, tok, paths, unitVars, optionVars >>

\* image.save raises IOError: exit(err)
SaveImageFails ==
    /\ pc = "save_images"
    /\ save_idx < Len(tracker.images)
    /\ exit
    /\ UNCHANGED << path_idx, encoderVars, output, save_idx, oldfiles, newfiles, errors,
                    saved, output_before, tok, paths, unitVars, optionVars >>

(***************************************************************************)
(* _save_manifest                                                          *)
(***************************************************************************)
Manifest ==
    [kind |-> "manifest",
     version |-> 1,
     frameCount |-> nframes,
     blockSize |-> blocksize,
     imagesRequired |-> diffmap_count(tracker),
     videoWidth |-> Width,
     videoHeight |-> Height,
     sourceGrid |-> grid,
     format |-> "JPEG",
     frames |-> frame_maps]

_save_manifest ==
    /\ pc = "save_images"
    /\ save_idx = Len(tracker.images)
    /\ temp' = WriteFile(temp, ManifestName, Manifest)
    /\ saved' = saved \cup {ManifestName}
    /\ pc' = "copy"
    /\ UNCHANGED << raised, path_idx, encoderVars, output, save_idx, oldfiles, newfiles,
                    errors, output_before, tok, paths, unitVars, optionVars >>

\* open() or json.dump raises IOError, which nothing catches
SaveManifestFails ==
    /\ pc = "save_images"
    /\ save_idx = Len(tracker.images)
    /\ Uncaught("IOError")
    /\ UNCHANGED << path_idx, encoderVars, output, save_idx, oldfiles, newfiles, errors,
                    saved, output_before, tok, paths, unitVars, optionVars >>

(***************************************************************************)
(* _copy_temp_directory.  Line 231 chooses between emptying and refilling  *)
(* an existing output directory and shutil.copytree, which creates it.     *)
(***************************************************************************)
CopyBegin ==
    /\ pc = "copy"
    /\ IF output.exists
       THEN /\ oldfiles' = listdir(output)
            /\ newfiles' = IF listdir(output) = << >> THEN listdir(temp) ELSE << >>
            /\ pc' = IF listdir(output) = << >> THEN "copy_new" ELSE "remove_old"
            /\ UNCHANGED output
       ELSE /\ output' = EmptyDir
            /\ newfiles' = listdir(temp)
            /\ pc' = "copytree"
            /\ UNCHANGED oldfiles
    /\ errors' = FALSE
    /\ UNCHANGED << raised, path_idx, encoderVars, temp, save_idx, saved, output_before, tok, paths, unitVars, optionVars >>

\* lines 234-235: os.remove of one old file; after the last, line 237
RemoveOld ==
    /\ pc = "remove_old"
    /\ oldfiles # << >>
    /\ output' = RemoveFile(output, Head(oldfiles).name)
    /\ oldfiles' = Tail(oldfiles)
    /\ IF Tail(oldfiles) = << >>
       THEN /\ newfiles' = listdir(temp)
            /\ pc' = "copy_new"
       ELSE UNCHANGED << newfiles, pc >>
    /\ UNCHANGED << raised, path_idx, encoderVars, temp, save_idx, errors, saved,
                    output_before, tok, paths, unitVars, optionVars >>

\* os.remove raises OSError, which nothing catches
RemoveOldFails ==
    /\ pc = "remove_old"
    /\ oldfiles # << >>
    /\ Uncaught("OSError")
    /\ UNCHANGED << path_idx, encoderVars, output, save_idx, oldfiles, newfiles, errors,
                    saved, output_before, tok, paths, unitVars, optionVars >>

\* lines 238-239: shutil.copy2 of one new file
CopyNew ==
    /\ pc = "copy_new"
    /\ newfiles # << >>
    /\ output' = WriteFile(output, Head(newfiles).name, Head(newfiles).data)
    /\ newfiles' = Tail(newfiles)
    /\ pc' = IF Tail(newfiles) = << >> THEN "rmtree" ELSE "copy_new"
    /\ UNCHANGED << raised, path_idx, encoderVars, temp, save_idx, oldfiles, errors, saved,
                    output_before, tok, paths, unitVars, optionVars >>

\* shutil.copy2 raises IOError, which nothing catches
CopyNewFails ==
    /\ pc = "copy_new"
    /\ newfiles # << >>
    /\ Uncaught("IOError")
    /\ UNCHANGED << path_idx, encoderVars, output, save_idx, oldfiles, newfiles, errors,
                    saved, output_before, tok, paths, unitVars, optionVars >>

\* shutil.copytree copies one file
CopyTreeFile ==
    /\ pc = "copytree"
    /\ newfiles # << >>
    /\ output' = WriteFile(output, Head(newfiles).name, Head(newfiles).data)
    /\ newfiles' = Tail(newfiles)
    /\ UNCHANGED << pc, raised, path_idx, encoderVars, temp, save_idx, oldfiles, errors,
                    saved, output_before, tok, paths, unitVars, optionVars >>

\* shutil.copytree fails to copy one file: it notes the error and goes on
CopyTreeFileFails ==
    /\ pc = "copytree"
    /\ newfiles # << >>
    /\ errors' = TRUE
    /\ newfiles' = Tail(newfiles)
    /\ UNCHANGED << pc, raised, path_idx, encoderVars, temp, output, save_idx, oldfiles,
                    saved, output_before, tok, paths, unitVars, optionVars >>

\* shutil.copytree returns, or raises shutil.Error: exit(err) (lines 244-245)
CopyTreeEnd ==
    /\ pc = "copytree"
    /\ newfiles = << >>
    /\ IF errors
       THEN exit
       ELSE /\ pc' = "rmtree"
            /\ UNCHANGED << raised, temp >>
    /\ UNCHANGED << path_idx, encoderVars, output, save_idx, oldfiles, newfiles, errors,
                    saved, output_before, tok, paths, unitVars, optionVars >>

\* line 247, then encode() lines 91-94: the hooks and the return to main's loop
Rmtree ==
    /\ pc = "rmtree"
    /\ temp' = [temp EXCEPT !.exists = FALSE, !.files = << >>]
    /\ pc' = "main"
    /\ UNCHANGED << raised, path_idx, encoderVars, output, save_idx, oldfiles, newfiles,
                    errors, saved, output_before, tok, paths, unitVars, optionVars >>

(***************************************************************************)
(* main(), lines 114-116: a KeyboardInterrupt anywhere in encode() is      *)
(* caught and answered with encoder.exit(message).                         *)
(***************************************************************************)
\* a handler that prints the message and lets the loop take the next path
KeyboardInterruptSkippingFile ==
    /\ pc \in {"frames", "scan", "save_images", "copy", "remove_old", "copy_new",
               "copytree", "rmtree"}
    /\ pc' = "main"
    /\ raised' = "ProgramEnd"
    /\ UNCHANGED << path_idx, encoderVars, fileVars, tok, paths, unitVars, optionVars >>

EncodePcs ==
    {"frames", "scan", "save_images", "copy", "remove_old", "copy_new", "copytree", "rmtree"}

KeyboardInterrupt ==
    /\ pc \in EncodePcs
    /\ exit
    /\ UNCHANGED << path_idx, encoderVars, output, save_idx, oldfiles, newfiles, errors,
                    saved, output_before, tok, paths, unitVars, optionVars >>

Next ==
    \/ Construct
    \/ ConstructFails
    \/ _process_frame
    \/ ScanBlock
    \/ RowEnd
    \/ _create_output_directory
    \/ MkdtempFails
    \/ _save_image_as
    \/ SaveImageFails
    \/ _save_manifest
    \/ SaveManifestFails
    \/ CopyBegin
    \/ RemoveOld
    \/ RemoveOldFails
    \/ CopyNew
    \/ CopyNewFails
    \/ CopyTreeFile
    \/ CopyTreeFileFails
    \/ CopyTreeEnd
    \/ Rmtree
    \/ KeyboardInterrupt

Spec == Init /\ [][Next]_vars

SpecCli == InitCli /\ [][Next]_vars

(***************************************************************************)
(* The flush of one run, frame_map += self._add_to_framemap(start), for    *)
(* run starts and lengths around the limits of the token's two fields.     *)
(***************************************************************************)
RECURSIVE Pow(_, _)
Pow(b, e) == IF e = 0 THEN 1 ELSE b * Pow(b, e - 1)

PositionLimit == Pow(Base, PositionWidth)
ConsecutiveLimit == Pow(Base, ConsecutiveWidth)

TokenPositions ==
    {0, 1, Base - 1, Base, Base + 1, Base * Base - 1, Base * Base,
     PositionLimit - 1, PositionLimit, PositionLimit + 1,
     Base * PositionLimit - 1, Base * PositionLimit}

TokenConsecutives ==
    {1, 2, Base - 1, Base, ConsecutiveLimit - 1, ConsecutiveLimit, ConsecutiveLimit + 1,
     PositionLimit}

InitToken ==
    /\ paths = << >>
    /\ pc = "flush"
    /\ tok \in [position : TokenPositions, consecutive : TokenConsecutives]
    /\ Idle
    /\ CodecIdle
    /\ DetectorIdle
    /\ PadIdle
    /\ OptionsAtStart

FlushToken ==
    /\ pc = "flush"
    /\ LET token == _add_to_framemap(tok.position, tok.consecutive)
       IN  IF token = TypeError
           THEN /\ Uncaught("TypeError")
                /\ UNCHANGED frame_map
           ELSE /\ frame_map' = frame_map \o token
                /\ pc' = "flushed"
                /\ UNCHANGED << raised, temp >>
    /\ UNCHANGED << path_idx, nframes, frame_number, tracker, frame_maps, consecutive,
                    position, row, column, video, placed, output, save_idx, oldfiles,
                    newfiles, errors, saved, output_before, tok, paths, unitVars, optionVars >>

NextToken == FlushToken

SpecToken == InitToken /\ [][NextToken]_vars

(***************************************************************************)
(* _get_base64_from_base10 on its own: one number, converted once.         *)
(***************************************************************************)
Nums ==
    (-1..MaxNum) \cup {Pow(Base, 3) - 1, Pow(Base, 3), Pow(Base, 4) - 1, Pow(Base, 4),
                       Pow(Base, 5) - 1, Pow(Base, 5)}

InitCodec ==
    /\ paths = << >>
    /\ pc = "convert"
    /\ tok = NoToken
    /\ Idle
    /\ num \in Nums
    /\ base64 = << >>
    /\ DetectorIdle
    /\ PadIdle
    /\ OptionsAtStart

Convert ==
    /\ pc = "convert"
    /\ base64' = _get_base64_from_base10(num)
    /\ pc' = "converted"
    /\ UNCHANGED << raised, path_idx, encoderVars, fileVars, tok, paths, num, blocks,
                    different, pad, padded, optionVars >>

NextCodec == Convert

SpecCodec == InitCodec /\ [][NextCodec]_vars

(***************************************************************************)
(* _get_padded_string on its own: one call.                                *)
(***************************************************************************)
\* strings of up to MaxString characters, the empty one among them
RECURSIVE StringsUpTo(_)
StringsUpTo(n) ==
    IF n = 0 THEN {<< >>}
    ELSE LET shorter == StringsUpTo(n - 1)
         IN  shorter \cup {Append(s, c) : s \in shorter, c \in {"1", "B"}}

\* the two characters the encoder pads with
PadChars == {"0", "A"}

InitPad ==
    /\ paths = << >>
    /\ pc = "pad"
    /\ tok = NoToken
    /\ Idle
    /\ CodecIdle
    /\ DetectorIdle
    /\ pad \in [string : StringsUpTo(MaxString), length : 1..MaxLength, char : PadChars]
    /\ padded = << >>
    /\ OptionsAtStart

Pad ==
    /\ pc = "pad"
    /\ padded' = _get_padded_string(pad.string, pad.length, pad.char)
    /\ pc' = "padded"
    /\ UNCHANGED << raised, path_idx, encoderVars, fileVars, tok, paths, num, base64,
                    blocks, different, pad, optionVars >>

NextPad == Pad

SpecPad == InitPad /\ [][NextPad]_vars

(***************************************************************************)
(* _compare_images on its own: two blocks and a threshold, compared once.  *)
(***************************************************************************)
Area == blocksize * blocksize

\* a black block, and the blocks of pixels that differ from black by 0, 1 or 2
BlackBlock == [i \in 1..Area |-> 0]
DarkBlocks == [1..Area -> {0, 1, 2}]

\* whole thresholds, one of them negative
Thresholds == -1..MaxThreshold

InitDetector ==
    /\ paths = << >>
    /\ pc = "compare"
    /\ tok = NoToken
    /\ Idle
    /\ CodecIdle
    /\ blocks \in [im1 : {BlackBlock}, im2 : DarkBlocks, threshold : Thresholds]
    /\ different = FALSE
    /\ PadIdle
    /\ OptionsAtStart

Compare ==
    /\ pc = "compare"
    /\ different' = _compare_images_at(blocks.im1, blocks.im2, blocks.threshold)
    /\ pc' = "compared"
    /\ UNCHANGED << raised, path_idx, encoderVars, fileVars, tok, paths, num, base64,
                    blocks, pad, padded, optionVars >>

NextDetector == Compare

SpecDetector == InitDetector /\ [][NextDetector]_vars

(***************************************************************************)
(* Encoders constructed one after another in one process, as a program     *)
(* that imports the class does: Whitewater(path, **kwargs).                *)
(***************************************************************************)
InitOptions ==
    /\ paths = << >>
    /\ pc = "construct"
    /\ tok = NoToken
    /\ Idle
    /\ CodecIdle
    /\ DetectorIdle
    /\ PadIdle
    /\ OptionsAtStart

ConstructWithOptions ==
    /\ pc = "construct"
    /\ constructions < MaxConstructions
    /\ \E kw \in Kwargs : SetOptions(kw)
    /\ UNCHANGED << pc, raised, path_idx, encoderVars, fileVars, tok, paths, unitVars >>

NextOptions == ConstructWithOptions

SpecOptions == InitOptions /\ [][NextOptions]_vars

(***************************************************************************)
(* Properties.                                                             *)
(***************************************************************************)
Range(seq) == {seq[i] : i \in DOMAIN seq}

BlockPositions == 0..(rows * columns - 1)

\* the positions the detector marks when cur is compared with prev
Differing(prev, cur) ==
    {p \in BlockPositions :
        LET box == _get_box_coords(p \div columns, p % columns, blocksize)
        IN  _compare_images(crop(prev, box), crop(cur, box))}

\* the positions the tokens of a frame-map cover
TokenRange(token) == token.start..(token.start + token.length - 1)
Covered(fm) == LET toks == Tokens(fm) IN UNION {TokenRange(toks[k]) : k \in DOMAIN toks}

WholeTokens(fm) == Len(fm) % TokenWidth = 0

\* no position lies in two tokens
NoOverlap(fm) ==
    LET toks == Tokens(fm)
    IN  \A j, k \in DOMAIN toks :
            j # k => TokenRange(toks[j]) \cap TokenRange(toks[k]) = {}

\* the scan of the frame taken last has just been completed
ScanComplete == pc = "frames" /\ frame_number >= 2 /\ Len(frame_maps) = frame_number - 1

LastFrameMap == frame_maps[Len(frame_maps)]

\* C1: when the scan of a frame has been completed, the positions its run tokens cover
\* (start .. start+length-1 each) are exactly the positions the detector marks as
\* differing between the tracker's previous and current frame, and no position is
\* covered by two tokens.
C1_ExhaustiveCoverage ==
    ScanComplete =>
        /\ WholeTokens(LastFrameMap)
        /\ Covered(LastFrameMap) = Differing(tracker.previous_frame, tracker.current_frame)
        /\ NoOverlap(LastFrameMap)

\* a third frame scanned from a cursor in mid-row: the second frame placed one
\* block, the third yields several tokens
C1_Witness ==
    /\ ScanComplete
    /\ frame_number = 3
    /\ Len(Tokens(frame_maps[1])) = 1
    /\ Tokens(frame_maps[1])[1].length = 1
    /\ Len(Tokens(frame_maps[2])) >= 2
    /\ Cardinality(Differing(tracker.previous_frame, tracker.current_frame)) >= 3

CellsPerDiffmap == grid * grid

CellOfBox(box) == (box.y_0 \div blocksize) * grid + (box.x_0 \div blocksize)

\* C2: the k-th paste of the run (k >= 1, over all frames) goes to cell
\* (k-1) mod grid^2 of the image at list index ((k-1) div grid^2) + 1, and the
\* block pasted there is still in that cell.
C2_DensePacking ==
    \A k \in DOMAIN placed :
        /\ placed[k].image = ((k - 1) \div CellsPerDiffmap) + 1
        /\ CellOfBox(placed[k].box) = (k - 1) % CellsPerDiffmap
        /\ placed[k].image + 1 \in DOMAIN tracker.images
        /\ tracker.images[placed[k].image + 1].cells[CellOfBox(placed[k].box)] = placed[k].block

\* blocks of two frames fill the first diffmap and reach the second
C2_Witness ==
    /\ Len(placed) > CellsPerDiffmap
    /\ frame_number = 3
    /\ Len(frame_maps) = 2
    /\ frame_maps[1] # << >>
    /\ Len(frame_maps[1]) < Len(frame_maps[2])

\* encode() has returned to main's loop
Returned == pc = "main" /\ path_idx > 0

\* the manifest encode() left in the output directory
OutputManifest == (CHOOSE f \in Range(output.files) : f.name = ManifestName).data

IdenticalVideo == \A i \in DOMAIN video : video[i] = video[1]

AllFrameMapsEmpty(m) == \A i \in DOMAIN m.frames : m.frames[i] = << >>

\* C3 as stated: a video whose frames are all identical to the first yields
\* imagesRequired = 0 and an empty frame-map for every frame after the first.
C3_IdenticalYieldsZeroImages ==
    (Returned /\ IdenticalVideo) =>
        /\ OutputManifest.imagesRequired = 0
        /\ AllFrameMapsEmpty(OutputManifest)

\* C3 amended: a video whose frames are all identical to the first yields
\* imagesRequired = 1 (the blank diffmap set_first_image allocates) and an empty
\* frame-map for every frame after the first.
C3_IdenticalYieldsSeedOnly ==
    (Returned /\ IdenticalVideo) =>
        /\ OutputManifest.imagesRequired = 1
        /\ Len(OutputManifest.frames) = nframes - 1
        /\ AllFrameMapsEmpty(OutputManifest)

\* a video of several identical frames has been encoded
C3_Witness ==
    /\ Returned
    /\ IdenticalVideo
    /\ Len(video) >= 3
    /\ Len(OutputManifest.frames) >= 2

\* C4: when the program has ended with ProgramEnd after paths['temp'] was
\* created, the temporary directory no longer exists.
C4_TempRemovedAtProgramEnd ==
    (pc = "ended" /\ raised = "ProgramEnd" /\ temp.path_set) => ~temp.exists

ImageFileNames == {ImageFileName(i) : i \in 0..(Len(tracker.images) - 1)}

\* every frame scanned, every image of the tracker saved, the manifest written
PipelineComplete ==
    /\ frame_number = nframes
    /\ Len(frame_maps) = nframes - 1
    /\ ImageFileNames \subseteq saved
    /\ ManifestName \in saved

\* C5: the output directory differs from what it was when the run began only
\* if every frame has been scanned, every image saved and the manifest written;
\* a run that failed in one of these steps has left it as it was.
C5_DestinationUntouchedBeforeCopy ==
    output # output_before => PipelineComplete

\* the copy has begun to empty an output directory that existed
C5_Witness ==
    /\ output # output_before
    /\ output_before.exists
    /\ pc = "remove_old"
    /\ Len(tracker.images) >= 3

\* what the output directory holds once the copy is complete
NewOutputFiles ==
    {[name |-> ImageFileName(i), data |-> tracker.images[i + 1]] :
        i \in 0..(Len(tracker.images) - 1)}
    \cup {[name |-> ManifestName, data |-> Manifest]}

OutputComplete == output.exists /\ Range(output.files) = NewOutputFiles

\* C6: when the program has ended by an interrupt or an error, the output
\* directory is as it was before the run or holds the complete new output.
C6_OutputOldOrComplete ==
    pc = "ended" => (output = output_before \/ OutputComplete)

\* C7 as stated: the program does not end while paths remain to be taken,
\* whatever happened to the run of an earlier one.
C7_LaterFilesStillProcessed ==
    pc = "ended" => path_idx = Len(paths)

\* C7 amended: once the run of a file has ended in a failure or an interrupt
\* the program has ended: the exception leaves main and no step of it follows,
\* so no path after that file is taken.
C7_FailureEndsProgram ==
    raised # "" => (pc = "ended" /\ ~ENABLED Next)

\* the first of several files was interrupted after its frames were scanned
C7_Witness ==
    /\ raised = "ProgramEnd"
    /\ pc = "ended"
    /\ path_idx = 1
    /\ path_idx < Len(paths)
    /\ temp.path_set

\* C8: the frames list of the manifest has nframes - 1 entries, and entry i
\* covers exactly the positions at which frame i+1 of the video differs from
\* frame i.
C8_OneFrameMapPerLaterFrame ==
    Returned =>
        /\ Len(video) = nframes
        /\ Len(OutputManifest.frames) = nframes - 1
        /\ \A i \in DOMAIN OutputManifest.frames :
            /\ WholeTokens(OutputManifest.frames[i])
            /\ Covered(OutputManifest.frames[i]) = Differing(video[i], video[i + 1])

\* three frames whose two frame-maps differ, the second frame unlike the first
C8_Witness ==
    /\ Returned
    /\ nframes = 3
    /\ OutputManifest.frames[1] # << >>
    /\ OutputManifest.frames[2] # << >>
    /\ Covered(OutputManifest.frames[1]) # Covered(OutputManifest.frames[2])
    /\ Differing(video[1], video[3]) # Differing(video[2], video[3])

\* the base-64 digit of n at the given place
ExpectedDigit(n, place) == _DIGITS_64[((n \div Pow(Base, place)) % Base) + 1]

TokenInRange == tok.position < PositionLimit /\ tok.consecutive < ConsecutiveLimit

\* C9: a run whose start is below 64^3 and whose length is below 64^2 is
\* flushed as 5 symbols: the 3 base-64 digits of the start, then the 2 of the
\* length, most significant first, 'A' standing for a leading zero.
C9_TokenIsFiveSymbols ==
    (pc # "flush" /\ TokenInRange) =>
        /\ pc = "flushed"
        /\ frame_map = << ExpectedDigit(tok.position, 2), ExpectedDigit(tok.position, 1),
                          ExpectedDigit(tok.position, 0),
                          ExpectedDigit(tok.consecutive, 1), ExpectedDigit(tok.consecutive, 0) >>

\* a start of three digits and a length of two have been flushed
C9_Witness ==
    /\ pc = "flushed"
    /\ tok.position = PositionLimit - 1
    /\ tok.consecutive = ConsecutiveLimit - 1
    /\ Len(frame_map) = TokenWidth

\* C10: a run whose start is 64^3 or more, or whose length is 64^2 or more, ends
\* the encoder with an exception; nothing is added to the frame-map.
C10_OutOfRangeIsAnError ==
    (pc # "flush" /\ ~TokenInRange) =>
        /\ pc = "ended"
        /\ raised = "TypeError"
        /\ frame_map = << >>

\* the first start that does not fit has been flushed
C10_Witness ==
    /\ pc = "ended"
    /\ raised = "TypeError"
    /\ tok.position = PositionLimit
    /\ tok.consecutive = 1

\* the tokens of the frame scanned last
LastTokens == Tokens(LastFrameMap)

RECURSIVE SumLengths(_, _)
\* the blocks the first k tokens count
SumLengths(toks, k) == IF k = 0 THEN 0 ELSE SumLengths(toks, k - 1) + toks[k].length

\* the paste call for the m-th block counted by the tokens of the frame
\* scanned last: the frame's pastes are the last of the run so far
PasteOfLastFrame(m) ==
    placed[Len(placed) - SumLengths(LastTokens, Len(LastTokens)) + m]

\* the diffmap cell and row a paste call filled
CellOfPaste(rec) == CellOfBox(rec.box)
DiffmapRowOfPaste(rec) == CellOfPaste(rec) \div grid

\* the paste filled the last cell of a diffmap row
CompletedDiffmapRow(rec) == CellOfPaste(rec) % grid = grid - 1

\* C11: no token of a frame-map covers blocks of two source rows: start and
\* start + length - 1 lie in the same row of columns blocks.
C11_TokenWithinSourceRow ==
    ScanComplete =>
        \A k \in DOMAIN LastTokens :
            /\ LastTokens[k].length >= 1
            /\ LastTokens[k].start \div columns
                 = (LastTokens[k].start + LastTokens[k].length - 1) \div columns

\* the last block of a source row and the first of the next both differ, and
\* the placement of the former did not complete a diffmap row
C11_Witness ==
    /\ ScanComplete
    /\ \E k \in DOMAIN LastTokens :
        /\ k + 1 \in DOMAIN LastTokens
        /\ LastTokens[k + 1].start = LastTokens[k].start + LastTokens[k].length
        /\ LastTokens[k + 1].start % columns = 0
        /\ ~CompletedDiffmapRow(PasteOfLastFrame(SumLengths(LastTokens, k)))

\* token k ends right before token k+1 starts
AdjacentTokens(toks, k) ==
    /\ k + 1 \in DOMAIN toks
    /\ toks[k + 1].start = toks[k].start + toks[k].length

\* C12: the tokens of a frame are in scan order, and a token ends right before
\* the next one starts only where a source row ends or where the placement of
\* its last block completed a diffmap row; a run that meets neither is one token.
C12_RunsAreMaximal ==
    ScanComplete =>
        \A k \in DOMAIN LastTokens :
            /\ k + 1 \in DOMAIN LastTokens
                 => LastTokens[k + 1].start >= LastTokens[k].start + LastTokens[k].length
            /\ AdjacentTokens(LastTokens, k)
                 => \/ LastTokens[k + 1].start % columns = 0
                    \/ CompletedDiffmapRow(PasteOfLastFrame(SumLengths(LastTokens, k)))

\* the scenario of the specification: of the second frame only the blocks at
\* positions 0 and 1 differ; one token (0, 2) and one diffmap
C12_Witness ==
    /\ ScanComplete
    /\ frame_number = 2
    /\ Differing(tracker.previous_frame, tracker.current_frame) = {0, 1}
    /\ LastTokens = << [start |-> 0, length |-> 2] >>
    /\ diffmap_count(tracker) = 1

\* C15: the blocks one token counts are pasted into one diffmap image, in one
\* row of it, in consecutive cells; so no block but the last of a token
\* completes a diffmap row.
C15_TokenWithinDiffmapRow ==
    ScanComplete =>
        \A k \in DOMAIN LastTokens :
            \A m \in 1..(LastTokens[k].length - 1) :
                LET before == SumLengths(LastTokens, k - 1)
                    this == PasteOfLastFrame(before + m)
                    next == PasteOfLastFrame(before + m + 1)
                IN  /\ next.image = this.image
                    /\ CellOfPaste(next) = CellOfPaste(this) + 1
                    /\ DiffmapRowOfPaste(next) = DiffmapRowOfPaste(this)

\* a run within one source row is split in two tokens where the placement of
\* a block completed a diffmap row
C15_Witness ==
    /\ ScanComplete
    /\ \E k \in DOMAIN LastTokens :
        /\ AdjacentTokens(LastTokens, k)
        /\ LastTokens[k + 1].start % columns # 0
        /\ CompletedDiffmapRow(PasteOfLastFrame(SumLengths(LastTokens, k)))

RECURSIVE DetectedUpTo(_)
\* the number of blocks the detector marks in the frames 2..n of the video
DetectedUpTo(n) ==
    IF n <= 1 THEN 0
    ELSE DetectedUpTo(n - 1) + Cardinality(Differing(video[n - 1], video[n]))

RECURSIVE RunLengthsUpTo(_)
\* the sum of the run lengths of the tokens of the first n frame-maps
RunLengthsUpTo(n) ==
    IF n = 0 THEN 0
    ELSE LET toks == Tokens(frame_maps[n])
         IN  RunLengthsUpTo(n - 1) + SumLengths(toks, Len(toks))

\* the cells of the diffmaps that hold a block
FilledCells ==
    {ic \in (2..Len(tracker.images)) \X (0..(CellsPerDiffmap - 1)) :
        tracker.images[ic[1]].cells[ic[2]] # Unset}

\* C16: at the end of every frame the blocks pasted so far are as many as the
\* blocks the detector marked so far and as the run lengths of all tokens
\* add up to; each paste went to a diffmap cell of its own.
C16_PlacedDetectedCounted ==
    ScanComplete =>
        /\ Len(placed) = DetectedUpTo(frame_number)
        /\ Len(placed) = RunLengthsUpTo(Len(frame_maps))
        /\ Cardinality(FilledCells) = Len(placed)
        /\ \A i, j \in DOMAIN placed :
              i # j => << placed[i].image, placed[i].box >> # << placed[j].image, placed[j].box >>

\* two frames with differing blocks have been scanned
C16_Witness ==
    /\ ScanComplete
    /\ frame_number = 3
    /\ Differing(video[1], video[2]) # {}
    /\ Differing(video[2], video[3]) # {}
    /\ Len(placed) > Cardinality(Differing(video[2], video[3]))

\* C17: the cursor of the tracker stays within the grid, and the placements
\* visit the cells in row-major order: x first, then y, then a new diffmap.
C17_CursorRowMajor ==
    /\ tracker.x \in 0..(grid - 1)
    /\ tracker.y \in 0..(grid - 1)
    /\ tracker.y * grid + tracker.x = Len(placed) % CellsPerDiffmap
    /\ \A i \in DOMAIN placed :
          /\ CellOfPaste(placed[i]) = (i - 1) % CellsPerDiffmap
          /\ placed[i].box.x_0 = (((i - 1) % CellsPerDiffmap) % grid) * blocksize
          /\ placed[i].box.y_0 = (((i - 1) % CellsPerDiffmap) \div grid) * blocksize
          /\ placed[i].image = 1 + (i - 1) \div CellsPerDiffmap

\* the cursor has wrapped to the second row and moved on in it
C17_Witness ==
    /\ Len(placed) = grid + 1
    /\ tracker.x = 1
    /\ tracker.y = 1

\* the output directory holds the manifest this run has written
ManifestWritten ==
    \E f \in Range(output.files) : f.name = ManifestName /\ f.data.kind = "manifest"

\* C18: once the baseline is set and K blocks have been placed, diffmap_count
\* is K div grid^2 + 1, and so is the imagesRequired of the manifest: the
\* diffmap after a full one exists from the placement that filled the last cell.
C18_DiffmapCount ==
    /\ Len(tracker.images) >= 1
         => diffmap_count(tracker) = Len(placed) \div CellsPerDiffmap + 1
    /\ (Returned /\ ManifestWritten)
         => OutputManifest.imagesRequired = Len(placed) \div CellsPerDiffmap + 1

\* the last cell of the first diffmap has just been filled: the second diffmap
\* is there, blank, before any further block arrives
C18_Witness ==
    /\ pc = "scan"
    /\ Len(placed) = CellsPerDiffmap
    /\ diffmap_count(tracker) = 2
    /\ tracker.images[Len(tracker.images)] = BlankDiffmap

\* a step that takes a frame after the first: set_next_frame and the start of
\* _compare_to_previous_frame
TakesLaterFrame == frame_number >= 1 /\ frame_number' = frame_number + 1

\* C19: moving to the next frame leaves the diffmap cursor and the list of
\* images as they are; the current frame becomes the previous one, the new
\* frame the current one, and position and consecutive restart at 0.
C19_NextFrameKeepsCursor ==
    [][TakesLaterFrame =>
          /\ tracker'.x = tracker.x
          /\ tracker'.y = tracker.y
          /\ tracker'.images = tracker.images
          /\ tracker'.previous_frame = tracker.current_frame
          /\ tracker'.current_frame = video'[Len(video')]
          /\ position' = 0
          /\ consecutive' = 0
          /\ placed' = placed
          /\ frame_maps' = frame_maps]_vars

\* the third frame has just been taken while the cursor stands inside a diffmap
\* the second frame has placed blocks in
C19_Witness ==
    /\ pc = "scan"
    /\ frame_number = 3
    /\ row = 0 /\ column = 0
    /\ position = 0 /\ consecutive = 0
    /\ Len(placed) > 0
    /\ tracker.y * grid + tracker.x > 0
    /\ tracker.previous_frame = video[2]
    /\ tracker.current_frame = video[3]

\* the defaults the class documents for its keyword arguments
DocumentedDefaults ==
    [blocksize |-> 8, grid |-> 256, quality |-> 75, threshold |-> 1, format |-> "JPEG"]

\* C13 as stated: an encoder constructed without an option uses the documented
\* default for it, whatever earlier encoders were constructed with, and
\* constructing an encoder leaves the defaults unchanged.
C13_OmittedOptionsAreDefaults ==
    constructions >= 1 =>
        /\ \A key \in DOMAIN DocumentedDefaults \ DOMAIN kwargs :
              options[key] = DocumentedDefaults[key]
        /\ \A key \in DOMAIN DocumentedDefaults :
              _OPTION_DEFAULTS[key] = DocumentedDefaults[key]

\* the value of each symbol is its index: A-Z, a-z, 0-9, +, /
AlphabetInOrder ==
    /\ Len(_DIGITS_64) = Base
    /\ \A i, j \in DOMAIN _DIGITS_64 : i # j => _DIGITS_64[i] # _DIGITS_64[j]
    /\ SymbolValue("A") = 0 /\ SymbolValue("Z") = 25
    /\ SymbolValue("a") = 26 /\ SymbolValue("z") = 51
    /\ SymbolValue("0") = 52 /\ SymbolValue("9") = 61
    /\ SymbolValue("+") = 62 /\ SymbolValue("/") = 63

\* C14: the code of a non-negative number is a non-empty string of symbols of
\* the alphabet whose base-64 value is the number; the code of 0 is 'A'.
C14_CodecRoundTrip ==
    (pc = "converted" /\ num >= 0) =>
        /\ AlphabetInOrder
        /\ Len(base64) >= 1
        /\ \A i \in DOMAIN base64 : base64[i] \in Range(_DIGITS_64)
        /\ Decode64(base64) = num
        /\ num = 0 => base64 = << "A" >>

\* a number of three digits with a zero digit in the middle has been converted
C14_Witness ==
    /\ pc = "converted"
    /\ num = Base * Base + 1
    /\ base64 = << "B", "A", "B" >>

\* the sum over the histogram buckets of count * (bucket index mod 256)^2,
\* taken pixel by pixel: each pixel counts once in each band
Statistic(im1, im2) ==
    Bands * SumOver(DOMAIN im1, [i \in DOMAIN im1 |-> (im1[i] - im2[i]) * (im1[i] - im2[i])])

NonZero(im1, im2) == \E i \in DOMAIN im1 : im1[i] # im2[i]

\* C20 as stated: two blocks are different if and only if their difference is
\* non-zero and the statistic divided by the area is above threshold^2.
C20_DifferentIffAboveSquare ==
    pc = "compared" =>
        (different <=>
            /\ NonZero(blocks.im1, blocks.im2)
            /\ Statistic(blocks.im1, blocks.im2) > blocks.threshold * blocks.threshold * Area)

\* C20 amended: two blocks are different if and only if their difference is
\* non-zero and either the threshold is negative or the statistic divided by
\* the area is above threshold^2; identical blocks are never different, and a
\* statistic equal to a threshold that is not negative is not different.
C20_DifferentIffAboveThreshold ==
    pc = "compared" =>
        /\ different <=>
              /\ NonZero(blocks.im1, blocks.im2)
              /\ \/ blocks.threshold < 0
                 \/ Statistic(blocks.im1, blocks.im2) > blocks.threshold * blocks.threshold * Area
        /\ blocks.im1 = blocks.im2 => ~different
        /\ (/\ blocks.threshold >= 0
            /\ Statistic(blocks.im1, blocks.im2) = blocks.threshold * blocks.threshold * Area)
              => ~different

\* blocks whose statistic divided by the area is threshold^2, not zero, have
\* been compared and found not different
C20_Witness ==
    /\ pc = "compared"
    /\ blocks.threshold > 0
    /\ NonZero(blocks.im1, blocks.im2)
    /\ Statistic(blocks.im1, blocks.im2) = blocks.threshold * blocks.threshold * Area
    /\ ~different

\* the longest run a token can count: a row of the frame, a row of the diffmap
Min(a, b) == IF a < b THEN a ELSE b
LongestRun == Min(columns, grid)

Copies(n, char) == [i \in 1..n |-> char]

\* C21 as stated: a string no longer than the length asked for, the empty
\* string included, comes back as length - len(string) copies of the padding
\* character followed by the string, the length asked for in all.
C21_PadsToLength ==
    (pc = "padded" /\ Len(pad.string) <= pad.length) =>
        /\ padded = Copies(pad.length - Len(pad.string), pad.char) \o pad.string
        /\ Len(padded) = pad.length

\* C22 as stated: a string as long as the length asked for, or longer, comes
\* back unchanged.
C22_LongStringUnchanged ==
    (pc = "padded" /\ Len(pad.string) >= pad.length) => padded = pad.string

====
